---- MODULE Spec2Model ----
(***************************************************************************)
(* A model of firefly-vcut's resilient transfer pipeline:                  *)
(*   - retry.py: RetryConfig, retry_with_backoff, retry_with_backoff_async *)
(*   - modal/stream.py: stream_recording, object_exists, chunk_audio       *)
(*                                                                         *)
(* Spec      : one call of stream_recording (pages, attempts, chunk        *)
(*             workers on the event loop, the object store's calls).       *)
(* SpecRetry : one retry chain of retry_with_backoff[_async] under a       *)
(*             RetryConfig and attempt outcomes drawn from bounded sets.   *)
(***************************************************************************)
EXTENDS Integers, Sequences, FiniteSets, TLC

(***************************************************************************)
(* Bounds of the model (not program constants).                            *)
(***************************************************************************)
\* max_retries of the retry chain of SpecRetry is drawn from 0..MaxRetriesBound
MaxRetriesBound == 2
\* pages of the recording streamed by Spec: 1..NumPages
NumPages == 2
\* chunk_audio's content_length is drawn from 0..MaxLength and its chunk_size
\* from 1..MaxChunkSize (and None)
MaxLength == 12
MaxChunkSize == 4
\* search_text_in_transcript's transcript has at most MaxTranscriptPages pages
\* of at most MaxSegments segments
MaxTranscriptPages == 2
MaxSegments == 2
\* stream_recordings lists at most MaxRecordings recordings
MaxRecordings == 4

(***************************************************************************)
(* Values.                                                                 *)
(***************************************************************************)
\* Python's None where an optional number is expected (max_backoff,
\* chunk_size); chunk_audio's own marker of an open range end is also -1.
None == -1

\* float('inf') of `config.max_backoff or float('inf')`
Inf == 1000000000

Min(a, b) == IF a <= b THEN a ELSE b

\* Python truthiness of an optional number: None and 0 are falsy.
Truthy(x) == x # None /\ x # 0

(***************************************************************************)
(* retry.py                                                                *)
(***************************************************************************)
DefaultRetryCodes == {500, 502, 503, 504, 520, 521, 522, 523, 524}

\* RetryConfig.__init__: codes is the list passed in (NoCodes for None).
\* `retry_on_status_codes or [defaults]`: None and the empty list are falsy.
NoCodes == {None}

RetryConfig(mr, ib, ex, mb, codes) ==
    [max_retries |-> mr,
     initial_backoff |-> ib,
     exponent |-> ex,
     max_backoff |-> mb,
     retry_on_status_codes |->
         IF codes = NoCodes \/ codes = {} THEN DefaultRetryCodes ELSE codes]

\* config.py: STREAMING_RETRY_CONFIG with the environment unset
STREAMING_MAX_RETRIES == 3
STREAMING_INITIAL_BACKOFF == 5
STREAMING_EXPONENT == 2

STREAMING_RETRY_CONFIG ==
    RetryConfig(STREAMING_MAX_RETRIES, STREAMING_INITIAL_BACKOFF,
                STREAMING_EXPONENT, None, NoCodes)

\* An attempt's outcome: the operation raised exception number `id`, or
\* returned a value of Python type `type` (with a status when a response).
Exc(id) == [type |-> "exception", id |-> id, status |-> 0]
Resp(t, s) == [type |-> t, id |-> 0, status |-> s]
Value == [type |-> "value", id |-> 0, status |-> 0]
NoOutcome == [type |-> "none", id |-> 0, status |-> 0]

should_retry_response(response, config) ==
    response.status \in config.retry_on_status_codes

should_retry_aiohttp_response(response, config) ==
    response.status \in config.retry_on_status_codes

\* backoff = min(backoff * config.exponent, config.max_backoff or float('inf'))
NextBackoff(backoff, config) ==
    Min(backoff * config.exponent,
        IF Truthy(config.max_backoff) THEN config.max_backoff ELSE Inf)

\* The chain of one retry_with_backoff call: its loop variable, its locals
\* and where it stands: "call" (about to invoke func), "running" (func in
\* flight), "sleep" (in the backoff sleep), "returned", "raised".
NewChain(config) ==
    [pc |-> "call", attempt |-> 0, backoff |-> config.initial_backoff,
     last_exception |-> 0, out |-> NoOutcome]

\* Variant of MayRetry that gives up one attempt early.
MayRetryEarly(attempt, config) == attempt + 1 < config.max_retries

\* The budget test `attempt < config.max_retries` of both functions.

MayRetry(attempt, config) == attempt < config.max_retries

\* Variant of Raised that keeps the first exception of the chain.
RaisedFirst(r, e) == IF r.last_exception = 0 THEN e ELSE r.last_exception

\* The exception the exhausted chain raises: `raise last_exception`, with
\* last_exception just set to e, the exception of this attempt.

Raised(r, e) == e

\* retry_with_backoff, from the return (or raise) of func to the next
\* suspension: `out` is what func did in attempt r.attempt.
retry_with_backoff(config, r, out) ==
    IF out.type = "exception"
    THEN IF MayRetry(r.attempt, config)
         THEN [r EXCEPT !.pc = "sleep", !.last_exception = out.id]
         ELSE [r EXCEPT !.pc = "raised", !.last_exception = out.id,
                        !.out = Exc(Raised(r, out.id))]
    ELSE IF out.type = "requests.Response" /\ should_retry_response(out, config)
         THEN IF MayRetry(r.attempt, config)
              THEN [r EXCEPT !.pc = "sleep"]
              ELSE [r EXCEPT !.pc = "returned", !.out = out]
         ELSE [r EXCEPT !.pc = "returned", !.out = out]

\* Variant of retry_with_backoff_async that sleeps and retries on exceptions
\* only and returns every response at once.
retry_with_backoff_async_exceptions_only(config, r, out) ==
    IF out.type = "exception"
    THEN IF MayRetry(r.attempt, config)
         THEN [r EXCEPT !.pc = "sleep", !.last_exception = out.id]
         ELSE [r EXCEPT !.pc = "raised", !.last_exception = out.id,
                        !.out = Exc(Raised(r, out.id))]
    ELSE [r EXCEPT !.pc = "returned", !.out = out]

\* retry_with_backoff_async, likewise.
retry_with_backoff_async(config, r, out) ==
    IF out.type = "exception"
    THEN IF MayRetry(r.attempt, config)
         THEN [r EXCEPT !.pc = "sleep", !.last_exception = out.id]
         ELSE [r EXCEPT !.pc = "raised", !.last_exception = out.id,
                        !.out = Exc(Raised(r, out.id))]
    ELSE IF out.type = "aiohttp.ClientResponse"
            /\ should_retry_aiohttp_response(out, config)
         THEN IF MayRetry(r.attempt, config)
              THEN [r EXCEPT !.pc = "sleep"]
              ELSE [r EXCEPT !.pc = "returned", !.out = out]
         ELSE [r EXCEPT !.pc = "returned", !.out = out]

\* for attempt in range(config.max_retries + 1)
LoopRange(config) == 0 .. config.max_retries

\* The end of the backoff sleep: the backoff grows and the loop goes on; when
\* the range is used up the function ends in its last `raise last_exception`.
AfterSleep(config, r) ==
    IF r.attempt + 1 \in LoopRange(config)
    THEN [r EXCEPT !.pc = "call", !.attempt = r.attempt + 1,
                   !.backoff = NextBackoff(r.backoff, config)]
    ELSE [r EXCEPT !.pc = "raised", !.out = Exc(r.last_exception),
                   !.backoff = NextBackoff(r.backoff, config)]

\* retry_with_backoff run to its end on the outcomes outs[i..] (a blocking
\* call: its sleeps suspend nothing but the caller).
RECURSIVE RunSync(_, _, _, _)
RunSync(config, r, outs, i) ==
    IF r.pc \in {"returned", "raised"} \/ i > Len(outs) THEN r
    ELSE LET s == retry_with_backoff(config, r, outs[i])
         IN  RunSync(config, IF s.pc = "sleep" THEN AfterSleep(config, s) ELSE s,
                     outs, i + 1)

(***************************************************************************)
(* modal/stream.py: pure parts                                             *)
(***************************************************************************)
\* for chunk_size in (20 * 1024 * 1024, 50 * 1024 * 1024, None)
ChunkSizes == <<20 * 1024 * 1024, 50 * 1024 * 1024, None>>

\* Variant of chunk_audio that steps by chunk_size: each range starts on the
\* inclusive end of the one before it.
chunk_audio_overlapping(content_length, chunk_size) ==
    IF chunk_size = None THEN << <<0, -1>> >>
    ELSE LET step == chunk_size
             n == (content_length + step - 1) \div step
         IN  [k \in 1 .. n |->
                LET i == (k - 1) * step
                IN  IF i + chunk_size >= content_length
                    THEN <<i, -1>>
                    ELSE <<i, i + chunk_size>>]

\* Variant of chunk_audio that takes the end of a closed range as exclusive.
chunk_audio_exclusive_end(content_length, chunk_size) ==
    IF chunk_size = None THEN << <<0, -1>> >>
    ELSE LET step == chunk_size + 1
             n == (content_length + step - 1) \div step
         IN  [k \in 1 .. n |->
                LET i == (k - 1) * step
                IN  IF i + chunk_size >= content_length
                    THEN <<i, -1>>
                    ELSE <<i, i + chunk_size - 1>>]

\* Variant of chunk_audio that reads None as the default chunk size of its
\* signature (`chunk_size or 20 * 1024 * 1024`).
chunk_audio_default_size(content_length, chunk_size) ==
    LET size == IF chunk_size = None THEN ChunkSizes[1] ELSE chunk_size
        step == size + 1
        n == (content_length + step - 1) \div step
    IN  [k \in 1 .. n |->
           LET i == (k - 1) * step
           IN  IF i + size >= content_length THEN <<i, -1>>
                                              ELSE <<i, i + size>>]

\* chunk_audio: range(0, content_length, chunk_size + 1) has
\* ceil(content_length / (chunk_size + 1)) offsets; a range is <<start, end>>
\* with an inclusive end, -1 for an open end.
chunk_audio(content_length, chunk_size) ==
    IF chunk_size = None THEN << <<0, -1>> >>
    ELSE LET step == chunk_size + 1
             n == (content_length + step - 1) \div step
         IN  [k \in 1 .. n |->
                LET i == (k - 1) * step
                IN  IF i + chunk_size >= content_length
                    THEN <<i, -1>>
                    ELSE <<i, i + chunk_size>>]

\* ThreadPoolExecutor(max_workers=5)
MAX_WORKERS == 5

\* What the source endpoint can answer to one range request: the body with
\* a Content-Length that matches the range ("ok") or does not ("mismatch"),
\* a 4xx or 5xx status, or a broken connection.
FetchResponses == {"ok", "mismatch", "status4xx", "status5xx", "neterror"}

\* Variant of make_async_request that does not compare the Content-Length
\* with the width of the range.
make_async_request_unchecked(chunk, resp, e) ==
    IF resp \in {"neterror", "status4xx", "status5xx"} THEN Exc(e) ELSE Value

\* _make_async_request: raises (exception number e) or returns the body.
\* expected_size is None for an open range, and then nothing is compared.
make_async_request(chunk, resp, e) ==
    IF resp \in {"neterror", "status4xx", "status5xx"} THEN Exc(e)
    ELSE LET expected_size == IF chunk[2] # -1 THEN chunk[2] - chunk[1] + 1 ELSE None
         IN  IF resp = "mismatch" /\ Truthy(expected_size) THEN Exc(e) ELSE Value

\* _make_head_request under retry_with_backoff: the answers of the HEAD
\* requests of one page, attempt by attempt.
HeadOutcomeSeqs ==
    LET R(st) == Resp("requests.Response", st)
    IN  { <<R(200)>>, <<R(404)>>, <<R(503), R(200)>>, <<Exc(1), R(200)>>,
          <<R(503), R(503), R(503), R(503)>>,
          <<Exc(1), Exc(2), Exc(3), Exc(4)>> }

\* The Content-Length values the HEAD answer declares: an empty body, one
\* byte, and the lengths that the 20 MiB plan cuts into one closed range
\* and into a closed and an open range.
ContentLengths == {0, 1, ChunkSizes[1] + 1, ChunkSizes[1] + 2}

\* Variant of object_exists that takes every answer for a 404.
object_exists_never(key, objs) == FALSE

\* object_exists: head_object answered (True) or answered 404 (False).

object_exists(key, objs) == key \in objs

(***************************************************************************)
(* fuzz.py.  A text is a sequence of characters; a segment is a record     *)
(* [start, text]; a page is a sequence of segments; a transcript is a      *)
(* sequence of pages.                                                      *)
(***************************************************************************)
NL == "\n"

\* len(text.split("\n")): one more than the number of newlines.
RECURSIVE NumLines(_)
NumLines(t) ==
    IF t = <<>> THEN 1
    ELSE (IF Head(t) = NL THEN 1 ELSE 0) + NumLines(Tail(t))

\* "\n".join(texts)
RECURSIVE Join(_)
Join(texts) ==
    IF texts = <<>> THEN <<>>
    ELSE IF Len(texts) = 1 THEN texts[1]
    ELSE texts[1] \o <<NL>> \o Join(Tail(texts))

Max(a, b) == IF a >= b THEN a ELSE b

\* The length of a longest common subsequence of two texts.
RECURSIVE LCS(_, _)
LCS(a, b) ==
    IF a = <<>> \/ b = <<>> THEN 0
    ELSE IF Head(a) = Head(b) THEN 1 + LCS(Tail(a), Tail(b))
    ELSE Max(LCS(Tail(a), b), LCS(a, Tail(b)))

\* rapidfuzz.fuzz.ratio(a, b): the normalized Indel similarity times 100,
\* 100 * (1 - (|a| + |b| - 2 lcs) / (|a| + |b|)), and 100 for two empty
\* texts.  The score is kept as the fraction (100 * sim) / len.
ratio(a, b) ==
    IF Len(a) + Len(b) = 0 THEN [sim |-> 1, len |-> 1]
    ELSE [sim |-> 2 * LCS(a, b), len |-> Len(a) + Len(b)]

\* max_score = 0
ZeroScore == [sim |-> 0, len |-> 1]

\* score > max_score
Greater(score, max_score) == score.sim * max_score.len > max_score.sim * score.len

\* Variant of Improves that also lets an equal score replace the best.
ImprovesOrTies(best, score) ==
    best.page = None \/ ~Greater(best.score, score)

\* if max_page is None or score > max_score
Improves(best, score) == best.page = None \/ Greater(score, best.score)

\* The locals max_segment_start, max_page, max_score, max_segment_text, and
\* the exception that ended the function, if one did.
NoBest ==
    [start |-> None, page |-> None, score |-> ZeroScore, text |-> <<>>,
     raised |-> "no"]

\* Variant of Consider that takes the start time of the page's first
\* segment (segment[0]["start"]) whatever the position of the window.
ConsiderPageStart(best, text, page, segment, i, n) ==
    LET last == IF i + n <= Len(segment) THEN i + n ELSE Len(segment)
        segment_text == Join([k \in 1 .. last - i |-> segment[i + k].text])
        score == ratio(text, segment_text)
    IN  IF ~Improves(best, score) THEN best
        ELSE IF Len(segment) = 0 THEN [best EXCEPT !.raised = "IndexError"]
        ELSE [start |-> segment[1].start, page |-> page, score |-> score,
              text |-> segment_text, raised |-> "no"]

\* One candidate: its score against the query, and the four assignments
\* when it improves on the best.  segment[i]["start"] raises IndexError on
\* an empty page (i = 0, no segment).
Consider(best, text, page, segment, i, n) ==
    LET last == IF i + n <= Len(segment) THEN i + n ELSE Len(segment)
        segment_text == Join([k \in 1 .. last - i |-> segment[i + k].text])
        score == ratio(text, segment_text)
    IN  IF ~Improves(best, score) THEN best
        ELSE IF Len(segment) = 0 THEN [best EXCEPT !.raised = "IndexError"]
        ELSE [start |-> segment[i + 1].start, page |-> page, score |-> score,
              text |-> segment_text, raised |-> "no"]

\* Variant of WindowStarts that stops one window short of the page's end.
WindowStartsShort(segment, n) ==
    IF Len(segment) < n THEN 0 .. 0 ELSE 0 .. Len(segment) - n - 1

\* The positions i tried on a page: 0 for a page shorter than the query
\* (the whole page), else range(len(segment) - num_segment_in_text + 1).
WindowStarts(segment, n) ==
    IF Len(segment) < n THEN 0 .. 0 ELSE 0 .. Len(segment) - n

\* The loop over the positions of one page, from position i on.
RECURSIVE ScanPage(_, _, _, _, _, _)
ScanPage(best, text, page, segment, i, n) ==
    IF best.raised # "no" \/ i \notin WindowStarts(segment, n) THEN best
    ELSE ScanPage(Consider(best, text, page, segment, i, n),
                  text, page, segment, i + 1, n)

\* for page, segment in enumerate(transcript), from page index `page` on.
RECURSIVE ScanPages(_, _, _, _, _)
ScanPages(best, transcript, text, page, n) ==
    IF best.raised # "no" \/ page >= Len(transcript) THEN best
    ELSE ScanPages(ScanPage(best, text, page, transcript[page + 1], 0, n),
                   transcript, text, page + 1, n)

\* Variant of ReturnedPage that reports the index of enumerate as it is.
ReturnedPageZeroBased(max_page) == max_page

\* max_page + 1 of the return statement
ReturnedPage(max_page) == max_page + 1

\* search_text_in_transcript: the tuple returned, or the exception raised
\* (`max_page + 1` raises TypeError while max_page is None).
search_text_in_transcript(transcript, text) ==
    LET best == ScanPages(NoBest, transcript, text, 0, NumLines(text))
    IN  IF best.raised # "no"
        THEN [kind |-> best.raised, start |-> None, page |-> None,
              score |-> ZeroScore, text |-> <<>>]
        ELSE IF best.page = None
        THEN [kind |-> "TypeError", start |-> None, page |-> None,
              score |-> ZeroScore, text |-> <<>>]
        ELSE [kind |-> "tuple", start |-> best.start,
              page |-> ReturnedPage(best.page), score |-> best.score,
              text |-> best.text]

(***************************************************************************)
(* State.                                                                  *)
(***************************************************************************)
VARIABLES
    \* -- one retry chain (SpecRetry) --
    rconfig,     \* the RetryConfig of the chain
    rcodes,      \* the retry_on_status_codes argument it was constructed with
    rkind,       \* "sync" (retry_with_backoff) or "async" (.._async)
    chain,       \* the chain's locals and position
    routs,       \* the outcomes of the attempts made so far, in order
    rsleeps,     \* the backoff sleeps performed so far, in order
    rcalls,      \* how many times func has been invoked
    rinflight,   \* how many invocations of func are in flight
    \* -- one call of stream_recording (Spec) --
    pc,          \* where stream_recording stands
    npages,      \* len(info_response["data"]["pages"])
    page,        \* the page of the loop (its key is its number)
    object_keys, \* the list being returned
    content_length,
    csi,         \* index in ChunkSizes of the attempt's chunk size
    upload_id,   \* the local upload_id (0: not bound yet)
    tasks,       \* the local tasks: bound or not, and how many coroutines
    workers,     \* the upload_single_chunk coroutines of the last gather
    finished,    \* the workers that returned, in the order they did
    executor,    \* the attempt's ThreadPoolExecutor: none, open, shutdown
    results,     \* the local results
    \* -- the object store --
    objects,     \* keys that exist
    uploads,     \* multipart uploads by id: open, completed, aborted
    \* -- history --
    calls,       \* the store calls made, in order
    io,          \* <<page, kind>>: lookups and fetches made for a page
    skipped,     \* pages whose head_object succeeded
    attempts,    \* the attempts made: page, chunk size, upload id, end
    \* -- one call of chunk_audio (SpecChunk) --
    ck_pc,       \* "call", "returned"; "idle" under the other specifications
    ck_length,   \* the argument content_length
    ck_size,     \* the argument chunk_size
    ck_chunks,   \* the list returned
    \* -- one call of search_text_in_transcript (SpecSearch) --
    search_pc,   \* "call", "done"; "idle" under the other specifications
    transcript,  \* the argument transcript
    text,        \* the argument text
    entry,       \* what the caller gets: the tuple, or the exception
    \* -- one run of stream_recordings (SpecBatch) --
    sr_pc,       \* where stream_recordings stands; "idle" elsewhere
    recordings,  \* len(recordings): the recordings are 1 .. recordings
    recording,   \* the recording of the loop
    streamed,    \* the recordings stream_recording was called for, in order
    updated,     \* the recordings whose keys were written to the database
    failed,      \* <<recording, call>>: the faults the except block caught
    \* -- one upload_single_chunk worker on its own (SpecWorker) --
    uw_pc,       \* "fetch", "upload", "returned", "raised"; "idle" elsewhere
    uw_chunk,    \* the argument chunk
    uw_resps,    \* what the source answered to each request, in order
    uw_body      \* chunk_data: the answer whose body was read

retryVars == <<rconfig, rcodes, rkind, chain, routs, rsleeps, rcalls, rinflight>>

streamVars ==
    <<pc, npages, page, object_keys, content_length, csi, upload_id, tasks,
      workers, finished, executor, results, objects, uploads, calls, io,
      skipped, attempts>>

chunkVars == <<ck_pc, ck_length, ck_size, ck_chunks>>

\* The variables of the calls modelled apart from the chain and the stream.
searchVars == <<search_pc, transcript, text, entry>>

batchVars == <<sr_pc, recordings, recording, streamed, updated, failed>>

workerVars == <<uw_pc, uw_chunk, uw_resps, uw_body>>

callVars == <<chunkVars, searchVars, batchVars, workerVars>>

vars == <<retryVars, streamVars, callVars>>

\* chunk_audio not called.
ChunkIdle ==
    /\ ck_pc = "idle"
    /\ ck_length = 0
    /\ ck_size = None
    /\ ck_chunks = <<>>

\* What the caller holds before the call has ended.
NoEntry ==
    [kind |-> "pending", start |-> None, page |-> None, score |-> ZeroScore,
     text |-> <<>>]

\* search_text_in_transcript not called.
SearchIdle ==
    /\ search_pc = "idle"
    /\ transcript = <<>>
    /\ text = <<>>
    /\ entry = NoEntry

\* stream_recordings not run.
BatchIdle ==
    /\ sr_pc = "idle"
    /\ recordings = 0
    /\ recording = 0
    /\ streamed = <<>>
    /\ updated = {}
    /\ failed = {}

\* No worker on its own.
WorkerIdle ==
    /\ uw_pc = "idle"
    /\ uw_chunk = <<0, -1>>
    /\ uw_resps = <<>>
    /\ uw_body = "none"

CallsIdle == ChunkIdle /\ SearchIdle /\ BatchIdle /\ WorkerIdle

(***************************************************************************)
(* SpecRetry: one chain of retry_with_backoff / retry_with_backoff_async.  *)
(***************************************************************************)
\* The retry_on_status_codes arguments: not supplied (None), the empty
\* list, a list of one status.
RetryCodeArgs == {NoCodes, {}, {404}}

\* The policies constructed with a given retry_on_status_codes argument.
RetryConfigsWith(codes) ==
    { RetryConfig(mr, ib, ex, mb, codes) :
        mr \in 0 .. MaxRetriesBound, ib \in {1, 5}, ex \in {2, 3},
        mb \in {None, 0, 7} }

RetryConfigs == UNION { RetryConfigsWith(codes) : codes \in RetryCodeArgs }

\* What one attempt can do; an exception raised in attempt a is a new
\* object, numbered a + 1.
AttemptOutcomes(a) ==
    {Exc(a + 1), Value} \cup
    { Resp(t, s) : t \in {"requests.Response", "aiohttp.ClientResponse"},
                   s \in {404, 500} }

\* stream_recording not called: the state of its variables under SpecRetry.
StreamIdle ==
    /\ pc = "idle"
    /\ npages = 0
    /\ page = 0
    /\ object_keys = <<>>
    /\ content_length = 0
    /\ csi = 0
    /\ upload_id = 0
    /\ tasks = [bound |-> FALSE, n |-> 0]
    /\ workers = <<>>
    /\ finished = <<>>
    /\ executor = "none"
    /\ results = <<>>
    /\ objects = {}
    /\ uploads = <<>>
    /\ calls = <<>>
    /\ io = {}
    /\ skipped = {}
    /\ attempts = <<>>

\* No retry chain of its own: the state of the chain's variables under Spec.
RetryIdle ==
    /\ rconfig = STREAMING_RETRY_CONFIG
    /\ rcodes = NoCodes
    /\ rkind = "none"
    /\ chain = [NewChain(STREAMING_RETRY_CONFIG) EXCEPT !.pc = "idle"]
    /\ routs = <<>>
    /\ rsleeps = <<>>
    /\ rcalls = 0
    /\ rinflight = 0

InitRetry ==
    /\ rcodes \in RetryCodeArgs
    /\ rconfig \in RetryConfigsWith(rcodes)
    /\ rkind \in {"sync", "async"}
    /\ chain = NewChain(rconfig)
    /\ routs = <<>>
    /\ rsleeps = <<>>
    /\ rcalls = 0
    /\ rinflight = 0
    /\ StreamIdle
    /\ CallsIdle

\* result = func(*args, **kwargs) / await func(*args, **kwargs): invoked.
RetryInvoke ==
    /\ chain.pc = "call"
    /\ chain' = [chain EXCEPT !.pc = "running"]
    /\ rcalls' = rcalls + 1
    /\ rinflight' = rinflight + 1
    /\ UNCHANGED <<rconfig, rcodes, rkind, routs, rsleeps, streamVars, callVars>>

\* func returns or raises; the function runs on to its sleep or its end.
RetryOutcome ==
    /\ chain.pc = "running"
    /\ \E out \in AttemptOutcomes(chain.attempt) :
          LET s == IF rkind = "sync"
                   THEN retry_with_backoff(rconfig, chain, out)
                   ELSE retry_with_backoff_async(rconfig, chain, out)
          IN  /\ chain' = s
              /\ routs' = Append(routs, out)
              /\ rsleeps' = IF s.pc = "sleep" THEN Append(rsleeps, chain.backoff)
                                               ELSE rsleeps
    /\ rinflight' = rinflight - 1
    /\ UNCHANGED <<rconfig, rcodes, rkind, rcalls, streamVars, callVars>>

\* time.sleep(backoff) / await asyncio.sleep(backoff) is over.
RetryWake ==
    /\ chain.pc = "sleep"
    /\ chain' = AfterSleep(rconfig, chain)
    /\ UNCHANGED <<rconfig, rcodes, rkind, routs, rsleeps, rcalls, rinflight, streamVars, callVars>>

NextRetry ==
    \/ RetryInvoke
    \/ RetryOutcome
    \/ RetryWake

SpecRetry == InitRetry /\ [][NextRetry]_vars

(***************************************************************************)
(* Spec: one call of stream_recording.                                     *)
(*                                                                         *)
(* The object store, the video API and the source endpoint are outside    *)
(* the repository: each call to them either answers or raises, and the    *)
(* model takes both.  A page's object key is modelled by the page's        *)
(* number (get_audio_object_key differs from page to page).                *)
(***************************************************************************)
Init ==
    /\ RetryIdle
    /\ CallsIdle
    /\ pc = "info"
    /\ npages = 0
    /\ page = 0
    /\ object_keys = <<>>
    /\ content_length = 0
    /\ csi = 0
    /\ upload_id = 0
    /\ tasks = [bound |-> FALSE, n |-> 0]
    /\ workers = <<>>
    /\ finished = <<>>
    /\ executor = "none"
    /\ results = <<>>
    /\ objects \in SUBSET (1 .. NumPages)
    /\ uploads = <<>>
    /\ calls = <<>>
    /\ io = {}
    /\ skipped = {}
    /\ attempts = <<>>

\* A call to the store: ok tells whether it answered (TRUE) or raised.
Call(op, id, part, parts, ok) ==
    [op |-> op, id |-> id, page |-> page, part |-> part, parts |-> parts,
     ok |-> ok]

\* object_keys.append(audio_object_key), then the next page of the loop or
\* `return object_keys`.
AppendKeyAndAdvance ==
    /\ object_keys' = Append(object_keys, page)
    /\ IF page = npages
       THEN pc' = "returned" /\ page' = page
       ELSE pc' = "check" /\ page' = page + 1

\* get_video_info and the two checks on its answer.
GetVideoInfo ==
    /\ pc = "info"
    /\ \E n \in 0 .. NumPages, code \in {0, 1} :
         IF code # 0 \/ n = 0
         THEN pc' = "raised" /\ UNCHANGED <<npages, page>>
         ELSE pc' = "check" /\ npages' = n /\ page' = 1
    /\ UNCHANGED <<retryVars, callVars, object_keys, content_length, csi, upload_id,
                   tasks, workers, finished, executor, results, objects,
                   uploads, calls, io, skipped, attempts>>

\* if object_exists(...): append the key and continue.  head_object raising
\* anything but a 404 ends stream_recording.
CheckExists ==
    /\ pc = "check"
    /\ \/ /\ skipped' = IF page \in objects THEN skipped \cup {page} ELSE skipped
          /\ IF object_exists(page, objects)
             THEN AppendKeyAndAdvance
             ELSE pc' = "stream_url" /\ UNCHANGED <<object_keys, page>>
       \/ /\ pc' = "raised"
          /\ UNCHANGED <<skipped, object_keys, page>>
    /\ UNCHANGED <<retryVars, callVars, npages, content_length, csi, upload_id, tasks,
                   workers, finished, executor, results, objects, uploads,
                   calls, io, attempts>>

\* get_video_stream_url and the check of its code.
GetStreamUrl ==
    /\ pc = "stream_url"
    /\ io' = io \cup {<<page, "stream_url">>}
    /\ \E code \in {0, 1} : pc' = IF code # 0 THEN "raised" ELSE "head"
    /\ UNCHANGED <<retryVars, callVars, npages, page, object_keys, content_length, csi,
                   upload_id, tasks, workers, finished, executor, results,
                   objects, uploads, calls, skipped, attempts>>

\* retry_with_backoff(_make_head_request, STREAMING_RETRY_CONFIG), the check
\* of the status and the Content-Length read; then the first chunk size.
HeadAudio ==
    /\ pc = "head"
    /\ io' = io \cup {<<page, "head">>}
    /\ \E outs \in HeadOutcomeSeqs, cl \in ContentLengths :
         LET fin == RunSync(STREAMING_RETRY_CONFIG,
                            NewChain(STREAMING_RETRY_CONFIG), outs, 1)
         IN  IF fin.pc = "returned" /\ fin.out.status = 200
             THEN pc' = "create" /\ content_length' = cl /\ csi' = 1
             ELSE pc' = "raised" /\ UNCHANGED <<content_length, csi>>
    /\ UNCHANGED <<retryVars, callVars, npages, page, object_keys, upload_id, tasks,
                   workers, finished, executor, results, objects, uploads,
                   calls, skipped, attempts>>

\* Variant of FreshUploadId: the upload is created once and its id kept for
\* every later attempt.
ReusedUploadId(cur, ups) == IF cur # 0 THEN cur ELSE Len(ups) + 1

\* The upload id create_multipart_upload answers with: a new one each call.

FreshUploadId(cur, ups) == Len(ups) + 1

\* upload_single_chunk(i + 1, chunk, thread_pool_executor), not started yet.
NewWorker(i, chunk) ==
    [part |-> i, chunk |-> chunk, st |-> "retry",
     chain |-> NewChain(STREAMING_RETRY_CONFIG), body |-> "none"]

\* chunk_audio, create_multipart_upload, the executor and the tasks list, up
\* to `await asyncio.gather(*tasks)`.
Create ==
    /\ pc = "create"
    /\ LET chunks == chunk_audio(content_length, ChunkSizes[csi])
           id == FreshUploadId(upload_id, uploads)
       IN  \/ /\ upload_id' = id
              /\ uploads' = IF id > Len(uploads) THEN Append(uploads, "open")
                                                 ELSE uploads
              /\ calls' = Append(calls, Call("create", id, 0, <<>>, TRUE))
              /\ tasks' = [bound |-> TRUE, n |-> Len(chunks)]
              /\ workers' = [i \in 1 .. Len(chunks) |-> NewWorker(i, chunks[i])]
              /\ finished' = <<>>
              /\ executor' = "open"
              /\ attempts' = Append(attempts,
                    [page |-> page, csi |-> csi, id |-> id, plan |-> chunks,
                     end |-> "running"])
              /\ pc' = "gather"
           \/ /\ attempts' = Append(attempts,
                    [page |-> page, csi |-> csi, id |-> 0, plan |-> chunks,
                     end |-> "create"])
              /\ pc' = "except"
              /\ UNCHANGED <<upload_id, uploads, calls, tasks, workers,
                             finished, executor>>
    /\ UNCHANGED <<retryVars, callVars, npages, page, object_keys, content_length, csi,
                   results, objects, io, skipped>>

\* Variant of LoopRunning: a backoff sleep that holds the thread of the
\* event loop (time.sleep in a coroutine).
LoopRunningUnlessAsleep ==
    /\ pc \in {"gather", "raised"}
    /\ \A w \in 1 .. Len(workers) :
          ~(workers[w].st = "retry" /\ workers[w].chain.pc = "sleep")

\* The event loop runs the chunk workers while stream_recording awaits the
\* gather, and after stream_recording has raised (its caller goes on).
\* Everything else stream_recording does is synchronous and blocks the loop.

LoopRunning == pc \in {"gather", "raised"}

\* The chain of a retry_with_backoff_async call that has returned the body
\* (its locals are gone with it).
Returned == [NewChain(STREAMING_RETRY_CONFIG) EXCEPT !.pc = "returned", !.out = Value]

\* One fetch of a worker's range and what retry_with_backoff_async makes of
\* it: a sleep, the failure of the worker, or the body handed to
\* loop.run_in_executor (which raises once the executor is shut down).
WorkerFetch(w) ==
    /\ LoopRunning
    /\ workers[w].st = "retry"
    /\ workers[w].chain.pc = "call"
    /\ \E resp \in FetchResponses :
         LET wk == workers[w]
             out == make_async_request(wk.chunk, resp, wk.chain.attempt + 1)
             s == retry_with_backoff_async(STREAMING_RETRY_CONFIG, wk.chain, out)
         IN  workers' = [workers EXCEPT ![w] =
               IF s.pc = "sleep" THEN [wk EXCEPT !.chain = s]
               ELSE IF s.pc = "raised"
                    THEN [wk EXCEPT !.chain = s, !.st = "failed"]
                    ELSE [wk EXCEPT !.chain = Returned, !.body = resp,
                            !.st = IF executor = "open" THEN "queued" ELSE "dead"]]
    /\ io' = io \cup {<<page, "fetch">>}
    /\ UNCHANGED <<retryVars, callVars, pc, npages, page, object_keys, content_length,
                   csi, upload_id, tasks, finished, executor, results,
                   objects, uploads, calls, skipped, attempts>>

\* await asyncio.sleep(backoff) of a worker is over.
WorkerWake(w) ==
    /\ LoopRunning
    /\ workers[w].st = "retry"
    /\ workers[w].chain.pc = "sleep"
    /\ workers' = [workers EXCEPT
                     ![w].chain = AfterSleep(STREAMING_RETRY_CONFIG, @)]
    /\ UNCHANGED <<retryVars, callVars, pc, npages, page, object_keys, content_length,
                   csi, upload_id, tasks, finished, executor, results,
                   objects, uploads, calls, io, skipped, attempts>>

Uploading == {v \in 1 .. Len(workers) : workers[v].st = "uploading"}

\* Variant of PoolHasRoom: a pool that starts a thread for every job.
PoolAlwaysHasRoom(n) == TRUE

\* ThreadPoolExecutor(max_workers=5) starts a job while fewer than
\* max_workers of its threads are busy; the others wait in its queue.

PoolHasRoom(n) == n < MAX_WORKERS

\* A thread of the pool takes the worker's job and calls r2.upload_part;
\* the lambda reads upload_id when it runs.
ExecutorStart(w) ==
    /\ workers[w].st = "queued"
    /\ PoolHasRoom(Cardinality(Uploading))
    /\ workers' = [workers EXCEPT ![w].st = "uploading"]
    /\ calls' = Append(calls, Call("upload_part", upload_id, workers[w].part, <<>>, TRUE))
    /\ UNCHANGED <<retryVars, callVars, pc, npages, page, object_keys, content_length,
                   csi, upload_id, tasks, finished, executor, results,
                   objects, uploads, io, skipped, attempts>>

\* r2.upload_part answers or raises.
ExecutorFinish(w) ==
    /\ workers[w].st = "uploading"
    /\ \E st \in {"uploaded", "upfailed"} :
         workers' = [workers EXCEPT ![w].st = st]
    /\ UNCHANGED <<retryVars, callVars, pc, npages, page, object_keys, content_length,
                   csi, upload_id, tasks, finished, executor, results,
                   objects, uploads, calls, io, skipped, attempts>>

\* The worker resumes after run_in_executor: it returns its part, or the
\* exception of upload_part ends it.
WorkerResume(w) ==
    /\ LoopRunning
    /\ workers[w].st \in {"uploaded", "upfailed"}
    /\ IF workers[w].st = "uploaded"
       THEN /\ workers' = [workers EXCEPT ![w].st = "done"]
            /\ finished' = Append(finished, w)
       ELSE /\ workers' = [workers EXCEPT ![w].st = "failed"]
            /\ UNCHANGED finished
    /\ UNCHANGED <<retryVars, callVars, pc, npages, page, object_keys, content_length,
                   csi, upload_id, tasks, executor, results, objects,
                   uploads, calls, io, skipped, attempts>>

\* {"ETag": upload_response["ETag"], "PartNumber": part_number}: the ETag
\* stands for the bytes of the range, named by the range's start.
PartOf(wk) == [PartNumber |-> wk.part, ETag |-> wk.chunk[1]]

\* Variant of GatherResults that lists the results as the workers return.
GatherResultsAsCompleted(ws, fin) == [i \in 1 .. Len(ws) |-> PartOf(ws[fin[i]])]

\* results = await asyncio.gather(*tasks): in the order of tasks.

GatherResults(ws, fin) == [i \in 1 .. Len(ws) |-> PartOf(ws[i])]

\* Every worker returned: the gather answers and the with block ends.
GatherReturn ==
    /\ pc = "gather"
    /\ \A w \in 1 .. Len(workers) : workers[w].st = "done"
    /\ results' = GatherResults(workers, finished)
    /\ executor' = "shutdown"
    /\ pc' = "complete"
    /\ UNCHANGED <<retryVars, callVars, npages, page, object_keys, content_length, csi,
                   upload_id, tasks, workers, finished, objects, uploads,
                   calls, io, skipped, attempts>>

\* A worker raised (its fetch ran out of retries, or its upload_part
\* raised): the gather raises that exception; the other workers are left
\* running on the loop.
GatherRaise ==
    /\ pc = "gather"
    /\ \E w \in 1 .. Len(workers) :
          /\ workers[w].st = "failed"
          /\ attempts' = [attempts EXCEPT ![Len(attempts)].end =
                IF workers[w].chain.pc = "raised" THEN "fetch" ELSE "upload"]
    /\ pc' = "with_exit"
    /\ UNCHANGED <<retryVars, callVars, npages, page, object_keys, content_length, csi,
                   upload_id, tasks, workers, finished, executor, results,
                   objects, uploads, calls, io, skipped>>

\* ThreadPoolExecutor.__exit__ with the exception on its way: shutdown
\* (wait=True) returns when every job handed to the pool has run.
WithExit ==
    /\ pc = "with_exit"
    /\ \A w \in 1 .. Len(workers) : workers[w].st \notin {"queued", "uploading"}
    /\ executor' = "shutdown"
    /\ pc' = "except"
    /\ UNCHANGED <<retryVars, callVars, npages, page, object_keys, content_length, csi,
                   upload_id, tasks, workers, finished, results, objects,
                   uploads, calls, io, skipped, attempts>>

\* r2.complete_multipart_upload(..., Parts = results), then break.  The
\* coroutines of the gather have all returned and are dropped here.
Complete ==
    /\ pc = "complete"
    /\ \/ /\ uploads[upload_id] = "open"
          /\ calls' = Append(calls, Call("complete", upload_id, 0, results, TRUE))
          /\ uploads' = [uploads EXCEPT ![upload_id] = "completed"]
          /\ objects' = objects \cup {page}
          /\ attempts' = [attempts EXCEPT ![Len(attempts)].end = "completed"]
          /\ AppendKeyAndAdvance
       \/ /\ calls' = Append(calls, Call("complete", upload_id, 0, results, FALSE))
          /\ attempts' = [attempts EXCEPT ![Len(attempts)].end = "complete"]
          /\ pc' = "except"
          /\ UNCHANGED <<uploads, objects, object_keys, page>>
    /\ workers' = <<>>
    /\ finished' = <<>>
    /\ UNCHANGED <<retryVars, callVars, npages, content_length, csi, upload_id, tasks,
                   executor, results, io, skipped>>

\* `if tasks: for task in tasks: task.cancel()`: tasks is not bound when the
\* first create of the call raised (UnboundLocalError), and its items are
\* coroutine objects, which have no cancel (AttributeError).
CancelRaises(t) == ~t.bound \/ t.n > 0

\* The except block: the cancel loop, abort_multipart_upload on the local
\* upload_id, time.sleep(10); then the next chunk size, or the end of the
\* for loop and the statement after it.
Handler ==
    /\ pc = "except"
    /\ IF CancelRaises(tasks)
       THEN /\ pc' = "raised"
            /\ UNCHANGED <<calls, uploads, csi, object_keys, page>>
       ELSE \/ /\ calls' = Append(calls, Call("abort", upload_id, 0, <<>>, TRUE))
               /\ uploads' = [uploads EXCEPT ![upload_id] =
                                   IF @ = "open" THEN "aborted" ELSE @]
               /\ IF csi < Len(ChunkSizes)
                  THEN /\ csi' = csi + 1
                       /\ pc' = "create"
                       /\ UNCHANGED <<object_keys, page>>
                  ELSE /\ AppendKeyAndAdvance
                       /\ UNCHANGED csi
            \/ /\ calls' = Append(calls, Call("abort", upload_id, 0, <<>>, FALSE))
               /\ pc' = "raised"
               /\ UNCHANGED <<uploads, csi, object_keys, page>>
    /\ UNCHANGED <<retryVars, callVars, npages, content_length, upload_id, tasks,
                   workers, finished, executor, results, objects, io,
                   skipped, attempts>>

Next ==
    \/ GetVideoInfo
    \/ CheckExists
    \/ GetStreamUrl
    \/ HeadAudio
    \/ Create
    \/ \E w \in 1 .. Len(workers) : WorkerFetch(w)
    \/ \E w \in 1 .. Len(workers) : WorkerWake(w)
    \/ \E w \in 1 .. Len(workers) : ExecutorStart(w)
    \/ \E w \in 1 .. Len(workers) : ExecutorFinish(w)
    \/ \E w \in 1 .. Len(workers) : WorkerResume(w)
    \/ GatherReturn
    \/ GatherRaise
    \/ WithExit
    \/ Complete
    \/ Handler

Spec == Init /\ [][Next]_vars

(***************************************************************************)
(* SpecChunk: one call of chunk_audio on arguments drawn from bounded      *)
(* sets.                                                                   *)
(***************************************************************************)
\* content_length: any length the HEAD answer can declare; chunk_size: a
\* positive size, or None for the unchunked attempt.
ChunkLengths == 0 .. MaxLength
ChunkSizeArgs == (1 .. MaxChunkSize) \cup {None}

InitChunk ==
    /\ ck_pc = "call"
    /\ ck_length \in ChunkLengths
    /\ ck_size \in ChunkSizeArgs
    /\ ck_chunks = <<>>
    /\ SearchIdle
    /\ BatchIdle
    /\ WorkerIdle
    /\ RetryIdle
    /\ StreamIdle

\* chunks = chunk_audio(content_length, chunk_size)
ChunkAudioCall ==
    /\ ck_pc = "call"
    /\ ck_chunks' = chunk_audio(ck_length, ck_size)
    /\ ck_pc' = "returned"
    /\ UNCHANGED <<ck_length, ck_size, retryVars, streamVars, searchVars,
                   batchVars, workerVars>>

NextChunk == ChunkAudioCall

SpecChunk == InitChunk /\ [][NextChunk]_vars

(***************************************************************************)
(* SpecSearch: one call of search_text_in_transcript on a transcript and   *)
(* a query drawn from bounded sets.                                        *)
(***************************************************************************)
\* sg["text"] of a segment: one of two characters.
SegmentTexts == [1 .. 1 -> {"a", "b"}]

\* A page of the transcript file: its segments start 5 seconds apart.
Pages ==
    UNION { { [j \in 1 .. k |-> [start |-> 5 * (j - 1), text |-> t[j]]] :
                t \in [1 .. k -> SegmentTexts] } : k \in 0 .. MaxSegments }

Transcripts == UNION {[1 .. k -> Pages] : k \in 0 .. MaxTranscriptPages}

\* song["lyrics_fragment"]: the empty text, fragments of one line, of two
\* lines and of two lines the second of which is empty, and a newline.
Queries ==
    { <<>>, <<"a">>, <<"b">>, <<"a", "a">>, <<"a", "b">>,
      <<"a", NL, "a">>, <<"a", NL, "b">>, <<"b", NL, "a">>,
      <<"a", NL>>, <<NL>> }

InitSearch ==
    /\ search_pc = "call"
    /\ transcript \in Transcripts
    /\ text \in Queries
    /\ entry = NoEntry
    /\ ChunkIdle
    /\ BatchIdle
    /\ WorkerIdle
    /\ RetryIdle
    /\ StreamIdle

\* entry = search_text_in_transcript(transcript, song["lyrics_fragment"])
SearchCall ==
    /\ search_pc = "call"
    /\ entry' = search_text_in_transcript(transcript, text)
    /\ search_pc' = "done"
    /\ UNCHANGED <<transcript, text, chunkVars, batchVars, workerVars,
                   retryVars, streamVars>>

NextSearch == SearchCall

SpecSearch == InitSearch /\ [][NextSearch]_vars

(***************************************************************************)
(* SpecBatch: one run of stream_recordings.  The database, the key lookup  *)
(* and stream_recording either answer or raise; stream_recording is the    *)
(* call of Spec, taken here by its two ends (it returns its keys, or it    *)
(* raises).                                                                *)
(***************************************************************************)
InitBatch ==
    /\ sr_pc = "list"
    /\ recordings = 0
    /\ recording = 0
    /\ streamed = <<>>
    /\ updated = {}
    /\ failed = {}
    /\ ChunkIdle
    /\ SearchIdle
    /\ WorkerIdle
    /\ RetryIdle
    /\ StreamIdle

batchOthers == <<chunkVars, searchVars, workerVars, retryVars, streamVars>>

\* recordings = db.recording.list_recordings_to_stream(conn, limit=10), and
\* the return when there is none.
ListRecordings ==
    /\ sr_pc = "list"
    /\ \/ \E n \in 0 .. MaxRecordings :
             /\ recordings' = n
             /\ sr_pc' = IF n = 0 THEN "returned" ELSE "setup"
       \/ sr_pc' = "raised" /\ UNCHANGED recordings
    /\ UNCHANGED <<recording, streamed, updated, failed, batchOthers>>

\* The end of the for loop's body for recording r: the next recording, or
\* the end of the function.
NextRecording(r) ==
    IF r < recordings
    THEN sr_pc' = "stream" /\ recording' = r + 1
    ELSE sr_pc' = "returned" /\ UNCHANGED recording

\* wbi_key = bilibili.wbi.getWbiKeys(sessdata) and r2 = boto3.client(...),
\* outside any try; then the loop is entered.
Setup ==
    /\ sr_pc = "setup"
    /\ \/ NextRecording(0)
       \/ sr_pc' = "raised" /\ UNCHANGED recording
    /\ UNCHANGED <<recordings, streamed, updated, failed, batchOthers>>

\* Variant of AfterFault that lets the fault end the run.
AfterFaultRaises(r) == sr_pc' = "raised" /\ UNCHANGED recording

\* except Exception as e: print(...); continue
AfterFault(r) == NextRecording(r)

\* object_keys = await stream_recording(...): it returns, or it raises and
\* the except block takes the fault.
StreamRecording ==
    /\ sr_pc = "stream"
    /\ streamed' = Append(streamed, recording)
    /\ \/ sr_pc' = "update" /\ UNCHANGED <<recording, failed>>
       \/ failed' = failed \cup {<<recording, "stream_recording">>}
          /\ AfterFault(recording)
    /\ UNCHANGED <<recordings, updated, batchOthers>>

\* db.recording.update_recording_audio_object_keys(...), inside the try.
UpdateRecording ==
    /\ sr_pc = "update"
    /\ \/ /\ updated' = updated \cup {recording}
          /\ NextRecording(recording)
          /\ UNCHANGED failed
       \/ /\ failed' = failed \cup {<<recording, "update">>}
          /\ AfterFault(recording)
          /\ UNCHANGED updated
    /\ UNCHANGED <<recordings, streamed, batchOthers>>

NextBatch ==
    \/ ListRecordings
    \/ Setup
    \/ StreamRecording
    \/ UpdateRecording

SpecBatch == InitBatch /\ [][NextBatch]_vars

(***************************************************************************)
(* SpecPool: the gather of one attempt of stream_recording whose plan has  *)
(* more ranges than the pool has threads, from the moment every worker has *)
(* its body and has handed its upload_part job to the executor, and the    *)
(* pool has started the jobs of the first workers, one thread short of its *)
(* size.                                                                   *)
(***************************************************************************)
\* A Content-Length whose 20 MiB plan has MAX_WORKERS + 1 ranges.
PoolContentLength == MAX_WORKERS * (ChunkSizes[1] + 1) + 1

\* The jobs the pool has started: those of the first workers.
PoolStarted(n) == 1 .. (MAX_WORKERS - 1)

\* A worker of the attempt awaiting loop.run_in_executor.
QueuedWorker(i, chunk, n) ==
    [NewWorker(i, chunk) EXCEPT !.chain = Returned, !.body = "ok",
         !.st = IF i \in PoolStarted(n) THEN "uploading" ELSE "queued"]

InitPool ==
    /\ RetryIdle
    /\ CallsIdle
    /\ pc = "gather"
    /\ npages = 1
    /\ page = 1
    /\ object_keys = <<>>
    /\ content_length = PoolContentLength
    /\ csi = 1
    /\ upload_id = 1
    /\ LET chunks == chunk_audio(content_length, ChunkSizes[1])
       IN  /\ tasks = [bound |-> TRUE, n |-> Len(chunks)]
           /\ workers = [i \in 1 .. Len(chunks) |->
                            QueuedWorker(i, chunks[i], Len(chunks))]
           /\ calls = << [op |-> "create", id |-> 1, page |-> 1, part |-> 0,
                          parts |-> <<>>, ok |-> TRUE] >>
                      \o [i \in PoolStarted(Len(chunks)) |->
                            [op |-> "upload_part", id |-> 1, page |-> 1,
                             part |-> i, parts |-> <<>>, ok |-> TRUE]]
           /\ attempts = << [page |-> 1, csi |-> 1, id |-> 1, plan |-> chunks,
                             end |-> "running"] >>
    /\ finished = <<>>
    /\ executor = "open"
    /\ results = <<>>
    /\ objects = {}
    /\ uploads = <<"open">>
    /\ io = {<<1, "stream_url">>, <<1, "head">>, <<1, "fetch">>}
    /\ skipped = {}

NextPool ==
    \/ \E w \in 1 .. Len(workers) : ExecutorStart(w)
    \/ \E w \in 1 .. Len(workers) : ExecutorFinish(w)
    \/ \E w \in 1 .. Len(workers) : WorkerResume(w)
    \/ GatherReturn
    \/ GatherRaise
    \/ WithExit
    \/ Complete
    \/ Handler

SpecPool == InitPool /\ [][NextPool]_vars

(***************************************************************************)
(* SpecWorker: one upload_single_chunk coroutine on its own, with the      *)
(* answers of the source endpoint kept in order: the requests of           *)
(* _make_async_request under retry_with_backoff_async and the transfer     *)
(* policy, then upload_part.                                               *)
(***************************************************************************)
\* A closed range of the 20 MiB plan, and an open one.
WorkerChunks == { <<0, ChunkSizes[1]>>, <<ChunkSizes[1] + 1, -1>> }

InitWorker ==
    /\ uw_pc = "fetch"
    /\ uw_chunk \in WorkerChunks
    /\ uw_resps = <<>>
    /\ uw_body = "none"
    /\ rconfig = STREAMING_RETRY_CONFIG
    /\ rcodes = NoCodes
    /\ rkind = "async"
    /\ chain = NewChain(STREAMING_RETRY_CONFIG)
    /\ routs = <<>>
    /\ rsleeps = <<>>
    /\ rcalls = 0
    /\ rinflight = 0
    /\ ChunkIdle
    /\ SearchIdle
    /\ BatchIdle
    /\ StreamIdle

workerOthers == <<chunkVars, searchVars, batchVars, streamVars>>

\* One request of the range and what retry_with_backoff_async makes of it:
\* a sleep, the exception that ends the worker, or chunk_data.
ChunkRequest ==
    /\ uw_pc = "fetch"
    /\ chain.pc = "call"
    /\ \E resp \in FetchResponses :
         LET out == make_async_request(uw_chunk, resp, chain.attempt + 1)
             s == retry_with_backoff_async(rconfig, chain, out)
         IN  /\ chain' = s
             /\ routs' = Append(routs, out)
             /\ uw_resps' = Append(uw_resps, resp)
             /\ rsleeps' = IF s.pc = "sleep" THEN Append(rsleeps, chain.backoff)
                                              ELSE rsleeps
             /\ uw_pc' = IF s.pc = "sleep" THEN "fetch"
                         ELSE IF s.pc = "raised" THEN "raised" ELSE "upload"
             /\ uw_body' = IF s.pc = "returned" THEN resp ELSE uw_body
    /\ rcalls' = rcalls + 1
    /\ UNCHANGED <<rconfig, rcodes, rkind, rinflight, uw_chunk, workerOthers>>

\* await asyncio.sleep(backoff) is over.
ChunkBackoffOver ==
    /\ uw_pc = "fetch"
    /\ chain.pc = "sleep"
    /\ chain' = AfterSleep(rconfig, chain)
    /\ UNCHANGED <<rconfig, rcodes, rkind, routs, rsleeps, rcalls, rinflight,
                   workerVars, workerOthers>>

\* await loop.run_in_executor(..., r2.upload_part(..., Body=chunk_data)):
\* the part is returned, or the exception of upload_part ends the worker.
ChunkUploadPart ==
    /\ uw_pc = "upload"
    /\ \E end \in {"returned", "raised"} : uw_pc' = end
    /\ UNCHANGED <<retryVars, uw_chunk, uw_resps, uw_body, workerOthers>>

NextWorker ==
    \/ ChunkRequest
    \/ ChunkBackoffOver
    \/ ChunkUploadPart

SpecWorker == InitWorker /\ [][NextWorker]_vars

(***************************************************************************)
(* Properties.                                                             *)
(***************************************************************************)
Terminal == pc \in {"returned", "raised"}

Keys == {object_keys[i] : i \in 1 .. Len(object_keys)}

CallsOf(op) == {i \in 1 .. Len(calls) : calls[i].op = op}

\* The attempts of page p that failed, by the step that failed.
FailedAttempts(p) ==
    {k \in 1 .. Len(attempts) :
        /\ attempts[k].page = p
        /\ attempts[k].end \in {"create", "fetch", "upload", "complete"}}

\* The failure of attempt k has been dealt with: the except block has run.
Handled(k) == ~(k = Len(attempts) /\ pc \in {"with_exit", "except"})

\* C1: if the attempts with all three chunk sizes fail for a page,
\* stream_recording raises (the page's key is not returned as transferred)
\* and the destination object does not exist.
C1_ExhaustedScheduleRaises ==
    \A p \in 1 .. NumPages :
        ( /\ \A c \in 1 .. Len(ChunkSizes) :
                \E k \in FailedAttempts(p) : attempts[k].csi = c /\ Handled(k) )
        => /\ pc = "raised"
           /\ p \notin Keys
           /\ p \notin objects

\* C2: when a chunk worker fails in an attempt that is not the last of the
\* schedule, abort_multipart_upload is called for the attempt's upload id
\* and a new attempt starts with the next chunk size; the attempts of a
\* page run through the schedule in order, at most three, and stop at the
\* first that completes.
C2_WorkerFailureAbortsAndDegrades ==
    /\ \A k \in 1 .. Len(attempts) :
          ( /\ attempts[k].end = "fetch"
            /\ attempts[k].csi < Len(ChunkSizes)
            /\ Handled(k) )
          => /\ \E i \in CallsOf("abort") : calls[i].id = attempts[k].id
             /\ \/ /\ k < Len(attempts)
                   /\ attempts[k + 1].page = attempts[k].page
                   /\ attempts[k + 1].csi = attempts[k].csi + 1
                \/ /\ k = Len(attempts)
                   /\ pc = "create"
                   /\ csi = attempts[k].csi + 1
    /\ \A k \in 1 .. Len(attempts) :
          /\ attempts[k].csi \in 1 .. Len(ChunkSizes)
          /\ (k > 1 /\ attempts[k - 1].page = attempts[k].page)
                => /\ attempts[k].csi = attempts[k - 1].csi + 1
                   /\ attempts[k - 1].end # "completed"
          /\ (k = 1 \/ attempts[k - 1].page # attempts[k].page)
                => attempts[k].csi = 1

\* C3: once abort_multipart_upload has been called for an upload id,
\* complete_multipart_upload is never called for it afterwards (so that no
\* upload is first aborted and then completed).
C3_NoCompleteAfterAbort ==
    \A i \in CallsOf("abort"), j \in CallsOf("complete") :
          i < j => calls[i].id # calls[j].id

\* An upload was aborted and the page then completed under a later upload.
C3_Witness ==
    \E i \in CallsOf("abort"), j \in CallsOf("complete") :
        /\ i < j
        /\ calls[i].ok /\ calls[j].ok
        /\ calls[i].page = calls[j].page
        /\ uploads[calls[i].id] = "aborted"
        /\ uploads[calls[j].id] = "completed"

\* C4: when stream_recording has returned or raised, every multipart upload
\* it created is completed or aborted (here granted that no abort call
\* itself raised: the store refusing the abort is not held against it).
C4_NoUploadLeftOpen ==
    ( /\ Terminal
      /\ \A i \in CallsOf("abort") : calls[i].ok )
    => \A id \in 1 .. Len(uploads) : uploads[id] # "open"

\* C5: no upload_part call names an upload id after abort_multipart_upload
\* has been called for that id.
C5_NoUploadPartAfterAbort ==
    \A i \in CallsOf("abort"), j \in CallsOf("upload_part") :
        i < j => calls[i].id # calls[j].id

\* An abort was followed by part uploads (under a later upload id), and a
\* worker left fetching by a failed gather was refused by the shut-down pool.
C5_Witness ==
    /\ \E i \in CallsOf("abort"), j \in CallsOf("upload_part") : i < j
    /\ pc = "raised"
    /\ \E w \in 1 .. Len(workers) : workers[w].st = "dead"
    /\ \E w \in 1 .. Len(workers) : workers[w].st = "failed"

\* The part list the plan of an attempt calls for.
PartsOfPlan(plan) ==
    [n \in 1 .. Len(plan) |-> [PartNumber |-> n, ETag |-> plan[n][1]]]

\* C6: when every chunk worker of an attempt succeeds,
\* complete_multipart_upload is called exactly once for the attempt's
\* upload id, with one entry per planned range, PartNumber i for the i-th
\* range, in ascending order, whatever order the workers finished in.
C6_CompleteListsPartsInPlanOrder ==
    \A k \in 1 .. Len(attempts) :
        LET a == attempts[k]
            cs == {i \in CallsOf("complete") : calls[i].id = a.id}
        IN  a.id # 0 =>
              /\ Cardinality(cs) <= 1
              /\ a.end \in {"completed", "complete"} => Cardinality(cs) = 1
              /\ \A i \in cs :
                    /\ calls[i].parts = PartsOfPlan(a.plan)
                    /\ \A n \in 1 .. Len(calls[i].parts) :
                          calls[i].parts[n].PartNumber = n

\* Part 2's worker returned before part 1's, and the upload was completed.
C6_Witness ==
    /\ pc = "complete"
    /\ finished = <<2, 1>>
    /\ Len(results) = 2

\* C7: if head_object succeeds for a page's key, nothing is looked up,
\* fetched, created, uploaded, completed or aborted for that page, the
\* object stays in the store and the key is in the list returned.
C7_ExistingObjectIsSkipped ==
    \A p \in skipped :
        /\ \A kind \in {"stream_url", "head", "fetch"} : <<p, kind>> \notin io
        /\ \A i \in 1 .. Len(calls) : calls[i].page # p
        /\ \A k \in 1 .. Len(attempts) : attempts[k].page # p
        /\ p \in objects
        /\ p \in Keys

\* A page was skipped and another page of the same call was transferred.
C7_Witness ==
    /\ pc = "returned"
    /\ skipped # {}
    /\ \E i \in CallsOf("complete") : calls[i].ok
    /\ Len(object_keys) = 2

\* No call to the store raised, and no worker failed otherwise than by its
\* fetch running out of retries.
NoStoreFault ==
    /\ \A i \in 1 .. Len(calls) : calls[i].ok
    /\ \A k \in 1 .. Len(attempts) :
          attempts[k].end \notin {"create", "upload", "complete"}
    /\ \A w \in 1 .. Len(workers) :
          /\ workers[w].st # "upfailed"
          /\ workers[w].st = "failed" => workers[w].chain.pc = "raised"

\* C8: if the fetches of the 20 MiB attempt and of the 50 MiB attempt fail
\* after their retries and the unchunked fetch succeeds, the page completes
\* on the third attempt, after exactly two abort calls (one for each failed
\* attempt's upload id) and with a single complete call.
C8_DegradesToUnchunked ==
    \A p \in 1 .. NumPages :
        ( /\ Terminal
          /\ NoStoreFault
          /\ \E k \in FailedAttempts(p) :
                attempts[k].csi = 1 /\ attempts[k].end = "fetch"
          /\ ~\E k \in FailedAttempts(p) : attempts[k].csi = Len(ChunkSizes) )
        => /\ \E k \in 1 .. Len(attempts) :
                /\ attempts[k].page = p
                /\ attempts[k].csi = Len(ChunkSizes)
                /\ attempts[k].end = "completed"
           /\ Cardinality({i \in CallsOf("abort") : calls[i].page = p}) = 2
           /\ Cardinality({i \in CallsOf("complete") : calls[i].page = p}) = 1
           /\ \A k \in FailedAttempts(p) :
                \E i \in CallsOf("abort") : calls[i].id = attempts[k].id

\* The attempt failed in the way the function itself retries: it raised, or
\* (sync: a requests.Response, async: an aiohttp.ClientResponse) it
\* answered with a status of the policy's retryable set.
RetryableFailure(out) ==
    \/ out.type = "exception"
    \/ /\ out.type = (IF rkind = "sync" THEN "requests.Response"
                                        ELSE "aiohttp.ClientResponse")
       /\ out.status \in rconfig.retry_on_status_codes

RetryEnded == chain.pc \in {"returned", "raised"}

\* C9: the operation is invoked at most max_retries + 1 times, never twice
\* at the same time, and exactly max_retries + 1 times when it always raises.
C9_AtMostMaxRetriesPlusOneCalls ==
    /\ rcalls <= rconfig.max_retries + 1
    /\ rinflight <= 1
    /\ ( /\ RetryEnded
         /\ \A i \in 1 .. Len(routs) : routs[i].type = "exception" )
       => rcalls = rconfig.max_retries + 1

\* An operation that raised every time, retried at least twice.
C9_Witness ==
    /\ chain.pc = "raised"
    /\ rconfig.max_retries >= 2
    /\ rcalls = rconfig.max_retries + 1
    /\ \A i \in 1 .. Len(routs) : routs[i].type = "exception"

\* C10: when all max_retries + 1 attempts have failed, the caller gets the
\* last attempt's outcome: its retryable response is returned as it is, its
\* exception is raised unchanged.
C10_ExhaustedChainYieldsLastOutcome ==
    ( /\ RetryEnded
      /\ Len(routs) = rconfig.max_retries + 1
      /\ \A i \in 1 .. Len(routs) : RetryableFailure(routs[i]) )
    => LET last == routs[Len(routs)]
       IN  /\ chain.out = last
           /\ chain.pc = IF last.type = "exception" THEN "raised" ELSE "returned"

\* Both ends are reached after earlier failures of the other kind: a chain
\* whose first attempt raised and whose last attempt answered a retryable
\* status.
C10_Witness ==
    /\ chain.pc = "returned"
    /\ rconfig.max_retries >= 1
    /\ Len(routs) = rconfig.max_retries + 1
    /\ routs[1].type = "exception"
    /\ \A i \in 1 .. Len(routs) : RetryableFailure(routs[i])
    /\ chain.out = routs[Len(routs)]

\* The backoff sequence of the policy: b_0 = initial_backoff and
\* b_{k+1} = min(b_k * exponent, max_backoff), unbounded when max_backoff is
\* not set (None).
RECURSIVE BackoffSeq(_, _)
BackoffSeq(config, k) ==
    IF k = 0 THEN config.initial_backoff
    ELSE Min(BackoffSeq(config, k - 1) * config.exponent,
             IF config.max_backoff = None THEN Inf ELSE config.max_backoff)

\* C11: the k-th backoff sleep of a chain (k = 0, 1, ...) lasts b_k of the
\* policy's capped geometric sequence, for every policy and every value of
\* max_backoff, whatever kind of failure each attempt ended in.
C11_SleepsFollowCappedGeometricSequence ==
    \A k \in 1 .. Len(rsleeps) : rsleeps[k] = BackoffSeq(rconfig, k - 1)

\* The inclusive last byte a range asks for in a body of L bytes: an open
\* range (`bytes=start-`) runs to the end of the body.
LastByte(r, L) == IF r[2] = -1 THEN L - 1 ELSE r[2]

BytesOf(r, L) == r[1] .. LastByte(r, L)

ChunkReturned == ck_pc = "returned" /\ ck_size # None

\* C12: for content_length >= 0 and chunk_size > 0 the ranges of the plan
\* are contiguous, do not overlap and cover exactly the bytes
\* 0 .. content_length - 1: the first starts at 0, each next one starts one
\* byte after the inclusive end of the one before, the last reaches byte
\* content_length - 1.
C12_PlanCoversExactlyTheBody ==
    ChunkReturned =>
        LET n == Len(ck_chunks)
        IN  /\ UNION {BytesOf(ck_chunks[k], ck_length) : k \in 1 .. n}
                 = 0 .. ck_length - 1
            /\ n > 0 => /\ ck_chunks[1][1] = 0
                        /\ LastByte(ck_chunks[n], ck_length) = ck_length - 1
            /\ \A k \in 1 .. n - 1 :
                  /\ ck_chunks[k][2] # -1
                  /\ ck_chunks[k + 1][1] = ck_chunks[k][2] + 1
            /\ \A j, k \in 1 .. n :
                  j # k => BytesOf(ck_chunks[j], ck_length)
                             \cap BytesOf(ck_chunks[k], ck_length) = {}

\* A plan of several ranges whose last range is closed: content_length is
\* a multiple of chunk_size + 1.
C12_Witness ==
    /\ ChunkReturned
    /\ Len(ck_chunks) = 3
    /\ ck_chunks[3][2] = ck_length - 1

\* C13: for content_length >= 0 and chunk_size > 0 the plan is never empty,
\* its last range is open-ended (end = -1) and every earlier range is closed.
C13_PlanEndsWithOpenRange ==
    ChunkReturned =>
        LET n == Len(ck_chunks)
        IN  /\ n >= 1
            /\ ck_chunks[n][2] = -1
            /\ \A k \in 1 .. n - 1 : ck_chunks[k][2] # -1

\* expected_size of _make_async_request for a closed range.
Width(r) == r[2] - r[1] + 1

\* C14: for content_length >= 0 and chunk_size C > 0 every closed range
\* spans exactly C + 1 bytes, the range starts are 0, C + 1, 2 (C + 1), ...
\* and no two ranges overlap.
C14_ClosedRangesSpanChunkSizePlusOne ==
    ChunkReturned =>
        LET n == Len(ck_chunks)
        IN  /\ \A k \in 1 .. n :
                  /\ ck_chunks[k][1] = (k - 1) * (ck_size + 1)
                  /\ ck_chunks[k][2] # -1 =>
                        /\ Width(ck_chunks[k]) = ck_size + 1
                        /\ ck_chunks[k][2] = ck_chunks[k][1] + ck_size
            /\ \A j, k \in 1 .. n :
                  j < k => /\ ck_chunks[j][1] < ck_chunks[k][1]
                           /\ BytesOf(ck_chunks[j], ck_length)
                                \cap BytesOf(ck_chunks[k], ck_length) = {}

\* A plan with two closed ranges before its open last range.
C14_Witness ==
    /\ ChunkReturned
    /\ Len(ck_chunks) = 3
    /\ ck_chunks[1][2] # -1
    /\ ck_chunks[2][2] # -1
    /\ ck_chunks[3][2] = -1
    /\ ck_size >= 2

\* The store calls of attempt k: those made with its upload id.
CallsOfAttempt(k, op) ==
    {c \in CallsOf(op) : attempts[k].id # 0 /\ calls[c].id = attempts[k].id}

\* C15: chunk_audio(content_length, None) is the one open range from byte 0
\* for every content_length, 0 included, and the unchunked attempt of the
\* session then runs exactly one chunk worker, with part number 1.
C15_UnchunkedPlanIsOneOpenRange ==
    /\ \A L \in ChunkLengths \cup ContentLengths :
          chunk_audio(L, None) = << <<0, -1>> >>
    /\ \A k \in 1 .. Len(attempts) :
          ChunkSizes[attempts[k].csi] = None =>
             /\ attempts[k].plan = << <<0, -1>> >>
             /\ (k = Len(attempts) /\ attempts[k].end = "running") =>
                   /\ tasks.n = 1
                   /\ Len(workers) = 1
                   /\ workers[1].part = 1
                   /\ workers[1].chunk = <<0, -1>>
             /\ Cardinality(CallsOfAttempt(k, "upload_part")) <= 1
             /\ \A c \in CallsOfAttempt(k, "upload_part") : calls[c].part = 1
             /\ \A c \in CallsOfAttempt(k, "complete") :
                   /\ Len(calls[c].parts) = 1
                   /\ calls[c].parts[1].PartNumber = 1

\* An unchunked attempt on a body of 0 bytes has uploaded its one part and
\* completed the upload.
C15_Witness ==
    \E k \in 1 .. Len(attempts) :
        /\ ChunkSizes[attempts[k].csi] = None
        /\ content_length = 0
        /\ attempts[k].end = "completed"
        /\ CallsOfAttempt(k, "upload_part") # {}

\* windowSize: the number of newline-delimited lines of the query.
WindowSize == NumLines(text)

\* The candidate windows of the transcript, each named by its 1-based page
\* and its 0-based position: every run of WindowSize consecutive segments
\* of a page with at least WindowSize segments, and the whole page (at
\* position 0) for a shorter page.
Candidates ==
    { <<p, i>> \in (1 .. Len(transcript)) \X (0 .. MaxSegments + 1) :
          \/ Len(transcript[p]) < WindowSize /\ i = 0
          \/ i + WindowSize <= Len(transcript[p]) }

\* The newline-joined text of a candidate.
CandidateText(c) ==
    LET S == transcript[c[1]]
        m == IF Len(S) < WindowSize THEN Len(S) ELSE WindowSize
    IN  Join([k \in 1 .. m |-> S[c[2] + k].text])

Similarity(c) == ratio(text, CandidateText(c))

SameScore(x, y) == x.sim * y.len = y.sim * x.len

\* Candidates of the maximal similarity.
BestCandidates ==
    LET sim == [c \in Candidates |-> Similarity(c)]
    IN  {c \in Candidates : \A d \in Candidates : ~Greater(sim[d], sim[c])}

\* c comes before d in page order, then position order.
Before(c, d) == c[1] < d[1] \/ (c[1] = d[1] /\ c[2] < d[2])

\* The first candidate of a set.
First(cs) == CHOOSE c \in cs : \A d \in cs : d = c \/ Before(c, d)

SearchDone == search_pc = "done"

NoEmptyPage ==
    /\ Len(transcript) >= 1
    /\ \A p \in 1 .. Len(transcript) : Len(transcript[p]) >= 1

\* entry is the tuple made from candidate c.
EntryIs(c) ==
    /\ entry.kind = "tuple"
    /\ entry.page = c[1]
    /\ entry.start = transcript[c[1]][c[2] + 1].start
    /\ entry.text = CandidateText(c)
    /\ SameScore(entry.score, Similarity(c))

\* C16: on a transcript whose pages are all non-empty, the score returned
\* is the maximum similarity over all candidate windows, and a result is
\* returned however low that maximum is.
C16_ScoreIsMaximumOverCandidates ==
    (SearchDone /\ NoEmptyPage) =>
        /\ entry.kind = "tuple"
        /\ LET sim == [c \in Candidates |-> Similarity(c)]
           IN  /\ \E c \in Candidates : SameScore(entry.score, sim[c])
               /\ \A c \in Candidates : ~Greater(sim[c], entry.score)

\* A result with a score under 50 on two pages, the first shorter than the
\* query's window, the second not; and the best window is on the second.
C16_Witness ==
    /\ SearchDone
    /\ NoEmptyPage
    /\ Len(transcript) = 2
    /\ Len(transcript[1]) < WindowSize
    /\ Len(transcript[2]) >= WindowSize
    /\ entry.kind = "tuple"
    /\ entry.page = 2
    /\ 2 * entry.score.sim < entry.score.len

\* C17 as stated: when several candidates share the maximal score, the
\* call returns the first of them in page order, then position order.
C17_FirstOfEqualBestIsReturned ==
    (SearchDone /\ Cardinality(BestCandidates) >= 2) =>
        EntryIs(First(BestCandidates))

\* C17 as amended: when the call returns a result, the result is the first
\* of the candidates of maximal score.
C17_ReturnedIsFirstOfEqualBest ==
    (SearchDone /\ entry.kind = "tuple") =>
        LET best == BestCandidates
        IN  best # {} /\ EntryIs(First(best))

\* Two windows of different pages share the maximal score, which is under
\* 100, behind a first window of a lower score; the first of the two is
\* returned.
C17_Witness ==
    /\ SearchDone
    /\ entry.kind = "tuple"
    /\ Cardinality(BestCandidates) >= 2
    /\ \E c, d \in BestCandidates : c[1] # d[1]
    /\ <<1, 0>> \in Candidates \ BestCandidates
    /\ entry.score.sim < entry.score.len
    /\ EntryIs(First(BestCandidates))

\* C18: on a transcript with zero pages the call returns None instead of
\* raising, and it never returns None on a transcript with a page.
C18_EmptyTranscriptReturnsNone ==
    SearchDone =>
        /\ Len(transcript) = 0 => entry.kind = "None"
        /\ Len(transcript) >= 1 => entry.kind # "None"

\* Candidates whose text is identical to the query.
ExactCandidates == {c \in Candidates : CandidateText(c) = text}

\* The transcript and the query of the example: one page of three segments.
ExamplePage ==
    << [start |-> 0, text |-> <<"a">>], [start |-> 5, text |-> <<"b">>],
       [start |-> 10, text |-> <<"c">>] >>

\* C19 as stated: if some candidate's text is identical to the query, the
\* call returns score 100 with the first such candidate's start, 1-based
\* page and text.
C19_ExactMatchScoresHundred ==
    (SearchDone /\ ExactCandidates # {}) =>
        /\ EntryIs(First(ExactCandidates))
        /\ entry.score.sim = entry.score.len

\* C19 as amended: if some candidate's text is identical to the query and
\* the call returns a result, the result has score 100 and the first such
\* candidate's start, 1-based page and text; the example returns start 5,
\* page 1, score 100, text 'b'.
C19_ReturnedExactMatchScoresHundred ==
    /\ (SearchDone /\ entry.kind = "tuple") =>
          LET exact == ExactCandidates
          IN  exact # {} => /\ EntryIs(First(exact))
                            /\ entry.score.sim = entry.score.len
    /\ LET e == search_text_in_transcript(<<ExamplePage>>, <<"b">>)
       IN  /\ e.kind = "tuple"
           /\ e.start = 5
           /\ e.page = 1
           /\ e.score.sim = e.score.len
           /\ e.text = <<"b">>

\* A query of two lines found in the second window position of the second
\* page, and again later: the first of the exact matches is returned.
C19_Witness ==
    /\ SearchDone
    /\ entry.kind = "tuple"
    /\ WindowSize = 2
    /\ ExactCandidates # {}
    /\ First(ExactCandidates)[1] = 2
    /\ entry.page = 2
    /\ entry.score.sim = entry.score.len

BatchEnded == sr_pc \in {"returned", "raised"}

\* C20: a fault while streaming one recording does not stop the run: every
\* later recording of the batch is still attempted, in order.
C20_FaultDoesNotStopTheBatch ==
    /\ \A k \in 1 .. Len(streamed) : streamed[k] = k
    /\ \A f \in failed :
          /\ sr_pc # "raised"
          /\ BatchEnded => Len(streamed) = recordings

\* The run has ended after a fault of stream_recording for its first
\* recording and a fault of the database update for its third, and all
\* recordings were attempted.
C20_Witness ==
    /\ sr_pc = "returned"
    /\ recordings >= 4
    /\ {<<1, "stream_recording">>, <<3, "update">>} \subseteq failed
    /\ 2 \in updated
    /\ Len(streamed) = recordings

\* C23: every abort_multipart_upload call names the upload id created in
\* the attempt that just failed: no upload id is aborted twice, none is
\* aborted for another page than the one it was created for, and a
\* completed upload is never aborted, also when create_multipart_upload is
\* the step that failed.
C23_AbortNamesTheFailedAttemptsUpload ==
    /\ \A i, j \in CallsOf("abort") : i < j => calls[i].id # calls[j].id
    /\ \A i \in CallsOf("abort") :
          /\ \A c \in CallsOf("create") :
                calls[c].id = calls[i].id => calls[c].page = calls[i].page
          /\ \A c \in CallsOf("complete") :
                (c < i /\ calls[c].ok) => calls[c].id # calls[i].id

\* C24: when stream_recording returns normally it returns one key per page
\* in page order, and every returned key names an object that exists in
\* the store.
C24_ReturnedKeysNameStoredObjects ==
    pc = "returned" =>
        /\ object_keys = [i \in 1 .. npages |-> i]
        /\ \A k \in Keys : k \in objects

\* The body handed to upload_part, once the worker has got that far.
UploadedBody == IF uw_pc \in {"upload", "returned"} THEN uw_body ELSE "none"

ClosedRange == uw_chunk[2] # -1

\* C21: for a closed range, a response whose Content-Length differs from
\* end - start + 1 fails that fetch attempt, which is retried under the
\* transfer policy (at most max_retries + 1 fetches of the range), and no
\* upload_part call is made with the body of such a response.
C21_LengthMismatchIsRetriedNotUploaded ==
    ClosedRange =>
        /\ Len(uw_resps) <= STREAMING_MAX_RETRIES + 1
        /\ UploadedBody # "mismatch"
        /\ \A k \in 1 .. Len(uw_resps) :
              uw_resps[k] = "mismatch" =>
                 /\ routs[k].type = "exception"
                 /\ k <= STREAMING_MAX_RETRIES =>
                       /\ Len(rsleeps) >= k
                       /\ k = Len(uw_resps) => uw_pc = "fetch"
                 /\ k = STREAMING_MAX_RETRIES + 1 => uw_pc = "raised"

\* A closed range whose first two answers mismatched and whose third was
\* uploaded; and the mismatch of the last allowed fetch ends the worker.
C21_Witness ==
    /\ ClosedRange
    /\ Len(uw_resps) = 3
    /\ uw_resps[1] = "mismatch"
    /\ uw_resps[2] = "mismatch"
    /\ uw_resps[3] = "ok"
    /\ uw_pc = "returned"
    /\ rsleeps = <<5, 10>>

\* C22: a 4xx answer to a chunk fetch is a permanent fault and is not
\* retried: the range is requested exactly once and the fault reaches the
\* session without a backoff sleep.
C22_ClientErrorIsNotRetried ==
    \A k \in 1 .. Len(uw_resps) :
        uw_resps[k] = "status4xx" =>
            /\ k = Len(uw_resps)
            /\ k = 1
            /\ rsleeps = <<>>
            /\ uw_pc = "raised"

\* C25: at any moment at most 5 upload_part calls are in progress for one
\* attempt, however many ranges the plan has.
C25_AtMostFiveUploadsInProgress == Cardinality(Uploading) <= 5

\* A plan of six ranges: five upload_part calls in progress while the sixth
\* job waits in the queue of the pool.
C25_Witness ==
    /\ Len(workers) = 6
    /\ Cardinality(Uploading) = 5
    /\ \E w \in 1 .. Len(workers) : workers[w].st = "queued"

\* Worker w is in the await asyncio.sleep(backoff) of its fetch chain.
Asleep(w) == workers[w].st = "retry" /\ workers[w].chain.pc = "sleep"

\* C26: while one chunk worker sleeps in its retry backoff, the other
\* workers of the same attempt are not blocked: whatever step another
\* worker is at (a request of its range, the start and the end of its
\* upload_part job, its return), that step is enabled.
C26_BackoffSleepDoesNotBlockOtherWorkers ==
    \A w, v \in 1 .. Len(workers) :
        (pc \in {"gather", "raised"} /\ w # v /\ Asleep(w)) =>
            /\ (workers[v].st = "retry" /\ workers[v].chain.pc = "call")
                  => ENABLED WorkerFetch(v)
            /\ Asleep(v) => ENABLED WorkerWake(v)
            /\ workers[v].st = "queued" => ENABLED ExecutorStart(v)
            /\ workers[v].st = "uploading" => ENABLED ExecutorFinish(v)
            /\ workers[v].st \in {"uploaded", "upfailed"}
                  => ENABLED WorkerResume(v)

\* One worker is in its first backoff sleep and another worker of the same
\* attempt has fetched, uploaded and returned its part.
C26_Witness ==
    /\ pc = "gather"
    /\ \E w, v \in 1 .. Len(workers) :
          /\ Asleep(w)
          /\ workers[w].chain.attempt = 0
          /\ workers[v].st = "done"

\* The same outcome as seen by the other function: a response of the HTTP
\* library of the one is a response of the HTTP library of the other.
OtherLibrary(out) ==
    IF out.type = "requests.Response"
    THEN [out EXCEPT !.type = "aiohttp.ClientResponse"]
    ELSE IF out.type = "aiohttp.ClientResponse"
         THEN [out EXCEPT !.type = "requests.Response"]
         ELSE out

\* The function of the given kind run on the outcomes outs[i..]: its chain,
\* the sleeps it made and the number of its attempts.
RECURSIVE RunOn(_, _, _, _, _)
RunOn(kind, config, run, outs, i) ==
    IF run.chain.pc \in {"returned", "raised"} \/ i > Len(outs) THEN run
    ELSE LET s == IF kind = "sync"
                  THEN retry_with_backoff(config, run.chain, outs[i])
                  ELSE retry_with_backoff_async(config, run.chain, outs[i])
         IN  RunOn(kind, config,
                   [chain |-> IF s.pc = "sleep" THEN AfterSleep(config, s) ELSE s,
                    sleeps |-> IF s.pc = "sleep"
                               THEN Append(run.sleeps, run.chain.backoff)
                               ELSE run.sleeps,
                    calls |-> run.calls + 1],
                   outs, i + 1)

\* The other function under the same policy on the same outcomes.
OtherRun ==
    RunOn(IF rkind = "sync" THEN "async" ELSE "sync", rconfig,
          [chain |-> NewChain(rconfig), sleeps |-> <<>>, calls |-> 0],
          [i \in 1 .. Len(routs) |-> OtherLibrary(routs[i])], 1)

C28_ReturnedFieldsDescribeOneWindow ==
    (SearchDone /\ entry.kind = "tuple") =>
        /\ entry.page \in 1 .. Len(transcript)
        /\ \E c \in Candidates :
              /\ Len(transcript[c[1]]) >= 1
              /\ EntryIs(c)

\* The window returned is the one at the second position of the second
\* page, and the window at the first position of the first page has
\* another text.
C28_Witness ==
    /\ SearchDone
    /\ entry.kind = "tuple"
    /\ Len(transcript) = 2
    /\ Len(transcript[1]) >= 1
    /\ Len(transcript[2]) = 2
    /\ entry.page = 2
    /\ entry.start = transcript[2][2].start
    /\ entry.start # transcript[2][1].start
    /\ entry.text # CandidateText(<<1, 0>>)

\* C29: when the transcript has a page with zero segments, the search
\* raises a fault instead of returning a result, wherever the empty page is
\* and whatever the other pages score.
C29_EmptyPageRaisesAFault ==
    (SearchDone /\ \E p \in 1 .. Len(transcript) : Len(transcript[p]) = 0)
        => entry.kind # "tuple"

\* The retryable set the policy was constructed with: the default set when
\* no set was supplied.
ConstructedWith == IF rcodes = NoCodes THEN DefaultRetryCodes ELSE rcodes

\* The response of the function's own HTTP library.
OwnResponse(out) ==
    out.type = IF rkind = "sync" THEN "requests.Response"
                                 ELSE "aiohttp.ClientResponse"

\* The k-th attempt was followed by a sleep and another attempt.
Retried(k) == k < Len(routs) \/ chain.pc \in {"sleep", "call", "running"}

\* C30: a returned HTTP response causes a retry (while the budget lasts) if
\* and only if its status code is in the retryable set the policy was
\* constructed with, the default set standing in only when no set was
\* supplied: a policy constructed with an empty set retries on no status
\* code, and a response with a non-retryable status is returned after a
\* single attempt with no sleep.
C30_RetriesExactlyOnTheConstructedSet ==
    \A k \in 1 .. Len(routs) :
        (OwnResponse(routs[k]) /\ k <= rconfig.max_retries) =>
            /\ Retried(k) <=> routs[k].status \in ConstructedWith
            /\ (k = 1 /\ routs[k].status \notin ConstructedWith) =>
                  /\ chain.pc = "returned"
                  /\ rcalls = 1
                  /\ rsleeps = <<>>

====
